---- MODULE Spec2Model ----
(***************************************************************************)
(* Generic-mode decoding of a GeoJSON FeatureCollection:                   *)
(*   FeatureReader::deserialize                                            *)
(*     -> deserialize_collection_features_from_reader                      *)
(*          -> FeatureCollectionVisitor::visit_map   (eager, once)         *)
(*          -> per pulled element: FeatureVisitor::visit_map               *)
(*               -> D::deserialize(hash_map)  (-> deserialize_geometry)    *)
(*                                                                         *)
(* A JSON value is a tagged record.  An object is the sequence of its      *)
(* entries in the order its map access delivers them: the top-level object *)
(* is streamed by the parser (document order, repeated keys delivered as   *)
(* they come); a buffered feature object has unique keys and is delivered  *)
(* in the iteration order of the value model's map (sorted or document     *)
(* order, depending on how the value model is built), so every order of    *)
(* unique keys is an input.                                                *)
(***************************************************************************)
EXTENDS Integers, Sequences, FiniteSets, TLC

VARIABLES doc, pc, objects, pos, error, yielded, handed, hookCalls, runs

vars == <<doc, pc, objects, pos, error, yielded, handed, hookCalls, runs>>

(***************************************************************************)
(* Bounds                                                                  *)
(***************************************************************************)
MaxTopEntries == 3
MaxFeatures == 2
MaxFeatureEntries == 3

(***************************************************************************)
(* The document value model (JsonValue)                                    *)
(***************************************************************************)
Null == [t |-> "Null"]
Str(s) == [t |-> "String", s |-> s]
Num(n) == [t |-> "Number", n |-> n]
Arr(a) == [t |-> "Array", a |-> a]
Obj(o) == [t |-> "Object", o |-> o]
Entry(k, v) == [k |-> k, v |-> v]

Keys(o) == {o[i].k : i \in 1..Len(o)}
Lookup(o, k) == o[CHOOSE i \in 1..Len(o) : o[i].k = k].v

Ok(v) == [ok |-> TRUE, value |-> v]
Err(e) == [ok |-> FALSE, err |-> e]

None == [some |-> FALSE]
Some(x) == [some |-> TRUE, value |-> x]

RECURSIVE Orders(_)
Orders(S) ==
  IF S = {} THEN {<<>>}
  ELSE UNION {{<<x>> \o s : s \in Orders(S \ {x})} : x \in S}

\* F applied to the value of v, v being evaluated once
Bind(v, F(_)) == CHOOSE r \in {F(x) : x \in {v}} : TRUE

SeqsUpTo(S, n) == UNION {[1..m -> S] : m \in 0..n}

(***************************************************************************)
(* Error messages                                                          *)
(***************************************************************************)
ErrCollectionType == "invalid type for feature collection"
ErrDuplicateFeatures == "Encountered more than one list of 'features'"
ErrFeaturesValue == "'features' had unexpected value"
ErrForeignMember == "foreign members are not handled by FeatureCollection deserializer"
ErrNoType == "No 'type' field was found"
ErrNoFeatures == "No 'features' field was found"
ErrFeatureType == "GeoJSON Feature had a 'type' other than \"Feature\""
ErrFeatureGeometry == "GeoJSON Feature had a unexpected geometry"
ErrFeatureNoType == "A GeoJSON Feature must have a 'type: \"Feature\"' field, but found none."
ErrNotAMap == "invalid type, expected a valid GeoJSON Feature object"
ErrConvertPrefix == "unable to convert from geojson Geometry: "
ErrGeometryDecode == "unable to decode as geojson geometry"
ErrNotAPoint == "not a Point"

(***************************************************************************)
(* FeatureCollectionVisitor::visit_map                                     *)
(***************************************************************************)
FeatureCollectionVisitor_new ==
  [has_feature_collection_type |-> FALSE, features |-> None, err |-> ""]

\* Faulty variant: a second "features" array replaces the first instead of being rejected
FeatureCollectionVisitor_entry_overwrites(st, e) ==
  IF e.k = "type" THEN
    IF e.v = Str("FeatureCollection")
    THEN [st EXCEPT !.has_feature_collection_type = TRUE]
    ELSE [st EXCEPT !.err = ErrCollectionType]
  ELSE IF e.k = "features" THEN
    IF e.v.t = "Array"
    THEN [st EXCEPT !.features = Some(e.v.a)]
    ELSE [st EXCEPT !.err = ErrFeaturesValue]
  ELSE [st EXCEPT !.err = ErrForeignMember]

\* Faulty variant: the repetition of "features" is tested before the value's shape
FeatureCollectionVisitor_entry_dup_first(st, e) ==
  IF e.k = "type" THEN
    IF e.v = Str("FeatureCollection")
    THEN [st EXCEPT !.has_feature_collection_type = TRUE]
    ELSE [st EXCEPT !.err = ErrCollectionType]
  ELSE IF e.k = "features" THEN
    IF st.features.some THEN [st EXCEPT !.err = ErrDuplicateFeatures]
    ELSE IF e.v.t = "Array" THEN [st EXCEPT !.features = Some(e.v.a)]
    ELSE [st EXCEPT !.err = ErrFeaturesValue]
  ELSE [st EXCEPT !.err = ErrForeignMember]

FeatureCollectionVisitor_entry(st, e) ==
  IF e.k = "type" THEN
    IF e.v = Str("FeatureCollection")
    THEN [st EXCEPT !.has_feature_collection_type = TRUE]
    ELSE [st EXCEPT !.err = ErrCollectionType]
  ELSE IF e.k = "features" THEN
    IF e.v.t = "Array" THEN
      IF st.features.some
      THEN [st EXCEPT !.err = ErrDuplicateFeatures]
      ELSE [st EXCEPT !.features = Some(e.v.a)]
    ELSE [st EXCEPT !.err = ErrFeaturesValue]
  ELSE [st EXCEPT !.err = ErrForeignMember]

RECURSIVE FeatureCollectionVisitor_loop(_, _, _)
FeatureCollectionVisitor_loop(entries, i, st) ==
  Bind(st, LAMBDA s :
    IF i > Len(entries) \/ s.err # "" THEN s
    ELSE FeatureCollectionVisitor_loop(entries, i + 1,
                                       FeatureCollectionVisitor_entry(s, entries[i])))

\* Faulty variant: the type is tested before the features
FeatureCollectionVisitor_finish_type_first(st) ==
  IF st.err # "" THEN Err(st.err)
  ELSE IF st.has_feature_collection_type THEN
    IF st.features.some
    THEN Ok(st.features.value)
    ELSE Err(ErrNoFeatures)
  ELSE Err(ErrNoType)

FeatureCollectionVisitor_finish(st) ==
  IF st.err # "" THEN Err(st.err)
  ELSE IF st.features.some THEN
    IF st.has_feature_collection_type
    THEN Ok(st.features.value)
    ELSE Err(ErrNoType)
  ELSE Err(ErrNoFeatures)

FeatureCollectionVisitor_visit_map(entries) ==
  Bind(FeatureCollectionVisitor_loop(entries, 1, FeatureCollectionVisitor_new),
       FeatureCollectionVisitor_finish)

(***************************************************************************)
(* Canonical Geometry and the caller's geometry representation G           *)
(* (collaborators of deserialize_geometry; G models points only)           *)
(***************************************************************************)
GeometryTypes == {"Point", "Polygon"}

IsPosition(v) ==
  /\ v.t = "Array"
  /\ Len(v.a) >= 2
  /\ \A i \in 1..Len(v.a) : v.a[i].t = "Number"

Geometry_deserialize(value) ==
  IF value.t # "Object" THEN Err(ErrGeometryDecode)
  ELSE IF ~({"type", "coordinates"} \subseteq Keys(value.o)) THEN Err(ErrGeometryDecode)
  ELSE LET ty == Lookup(value.o, "type")
           co == Lookup(value.o, "coordinates")
       IN IF ty.t # "String" THEN Err(ErrGeometryDecode)
          ELSE IF ty.s \notin GeometryTypes THEN Err(ErrGeometryDecode)
          ELSE IF co.t # "Array" THEN Err(ErrGeometryDecode)
          ELSE IF ty.s = "Point" /\ ~IsPosition(co) THEN Err(ErrGeometryDecode)
          ELSE Ok([type |-> ty.s, coordinates |-> co.a])

G_try_from(geometry) ==
  IF geometry.type = "Point"
  THEN Ok([x |-> geometry.coordinates[1].n, y |-> geometry.coordinates[2].n])
  ELSE Err(ErrNotAPoint)

(***************************************************************************)
(* deserialize_geometry: the result, and whether try_into was invoked      *)
(***************************************************************************)
\* Faulty variant: the conversion failure's description is dropped
deserialize_geometry_drops_cause(value) ==
  LET geojson_geometry == Geometry_deserialize(value)
  IN IF ~geojson_geometry.ok
     THEN [ok |-> FALSE, err |-> geojson_geometry.err, converted |-> FALSE]
     ELSE LET g == G_try_from(geojson_geometry.value)
          IN IF g.ok
             THEN [ok |-> TRUE, value |-> g.value, converted |-> TRUE]
             ELSE [ok |-> FALSE, err |-> ErrConvertPrefix, converted |-> TRUE]

deserialize_geometry(value) ==
  LET geojson_geometry == Geometry_deserialize(value)
  IN IF ~geojson_geometry.ok
     THEN [ok |-> FALSE, err |-> geojson_geometry.err, converted |-> FALSE]
     ELSE LET g == G_try_from(geojson_geometry.value)
          IN IF g.ok
             THEN [ok |-> TRUE, value |-> g.value, converted |-> TRUE]
             ELSE [ok |-> FALSE, err |-> ErrConvertPrefix \o g.err, converted |-> TRUE]

(***************************************************************************)
(* The target record D: MyStruct { geometry (deserialize_with =            *)
(* deserialize_geometry), name: String, age: u64 }, decoded from the       *)
(* entries of the field map in the map's iteration order                    *)
(***************************************************************************)
ErrInvalidString == "invalid type, expected a string"
ErrInvalidU64 == "invalid type, expected u64"
ErrMissingField == "missing field "

EmptyMap == [x \in {} |-> Null]

MyStruct_field(key, value) ==
  IF key = "geometry" THEN
    LET r == deserialize_geometry(value)
    IN IF r.ok THEN Ok(r.value) ELSE Err(r.err)
  ELSE IF key = "name" THEN
    IF value.t = "String" THEN Ok(value.s) ELSE Err(ErrInvalidString)
  ELSE IF key = "age" THEN
    IF value.t = "Number" /\ value.n >= 0 THEN Ok(value.n) ELSE Err(ErrInvalidU64)
  ELSE Ok(Null)

RECURSIVE MyStruct_visit(_, _, _, _)
MyStruct_step(acc, key, value) ==
  LET r == MyStruct_field(key, value)
      hook == IF key = "geometry"
              THEN Append(acc.hook, [value |-> value,
                                     result |-> deserialize_geometry(value)])
              ELSE acc.hook
  IN IF r.ok
     THEN [fields |-> [k \in DOMAIN acc.fields \cup {key} |->
                         IF k = key THEN r.value ELSE acc.fields[k]],
           err |-> "", hook |-> hook]
     ELSE [fields |-> acc.fields, err |-> r.err, hook |-> hook]

MyStruct_visit(m, order, i, acc) ==
  Bind(acc, LAMBDA a :
    IF i > Len(order) \/ a.err # "" THEN a
    ELSE MyStruct_visit(m, order, i + 1, MyStruct_step(a, order[i], m[order[i]])))

MyStruct_finish(acc) ==
  LET f == acc.fields
  IN IF acc.err # "" THEN [ok |-> FALSE, err |-> acc.err, hook |-> acc.hook]
     ELSE IF "geometry" \notin DOMAIN f
       THEN [ok |-> FALSE, err |-> ErrMissingField \o "geometry", hook |-> acc.hook]
     ELSE IF "name" \notin DOMAIN f
       THEN [ok |-> FALSE, err |-> ErrMissingField \o "name", hook |-> acc.hook]
     ELSE IF "age" \notin DOMAIN f
       THEN [ok |-> FALSE, err |-> ErrMissingField \o "age", hook |-> acc.hook]
     ELSE [ok |-> TRUE,
           value |-> [geometry |-> f["geometry"], name |-> f["name"], age |-> f["age"]],
           hook |-> acc.hook]

MyStruct_deserialize(m, order) ==
  Bind(MyStruct_visit(m, order, 1, [fields |-> EmptyMap, err |-> "", hook |-> <<>>]),
       MyStruct_finish)

(***************************************************************************)
(* FeatureVisitor::visit_map                                               *)
(***************************************************************************)
Insert(m, k, v) == [x \in DOMAIN m \cup {k} |-> IF x = k THEN v ELSE m[x]]

\* Faulty variant: a property never replaces a key the map already holds
RECURSIVE Flatten_keeps_existing(_, _, _)
Flatten_keeps_existing(m, properties, i) ==
  Bind(m, LAMBDA h :
    IF i > Len(properties) THEN h
    ELSE Flatten_keeps_existing(
           IF properties[i].k \in DOMAIN h THEN h
           ELSE Insert(h, properties[i].k, properties[i].v),
           properties, i + 1))

RECURSIVE Flatten(_, _, _)
Flatten(m, properties, i) ==
  Bind(m, LAMBDA h :
    IF i > Len(properties) THEN h
    ELSE Flatten(Insert(h, properties[i].k, properties[i].v), properties, i + 1))

FeatureVisitor_new == [has_feature_type |-> FALSE, hash_map |-> EmptyMap, err |-> ""]

\* Faulty variant: properties that are no object are skipped instead of rejected
FeatureVisitor_entry_skips_properties(st, e) ==
  IF e.k = "type" THEN
    IF e.v.t = "String" /\ e.v = Str("Feature")
    THEN [st EXCEPT !.has_feature_type = TRUE]
    ELSE [st EXCEPT !.err = ErrFeatureType]
  ELSE IF e.k = "geometry" THEN
    IF e.v.t = "Object"
    THEN [st EXCEPT !.hash_map = Insert(st.hash_map, "geometry", e.v)]
    ELSE [st EXCEPT !.err = ErrFeatureGeometry]
  ELSE IF e.k = "properties" THEN
    IF e.v.t = "Object"
    THEN [st EXCEPT !.hash_map = Flatten(st.hash_map, e.v.o, 1)]
    ELSE st
  ELSE [st EXCEPT !.err = ErrForeignMember]

FeatureVisitor_entry(st, e) ==
  IF e.k = "type" THEN
    IF e.v.t = "String" /\ e.v = Str("Feature")
    THEN [st EXCEPT !.has_feature_type = TRUE]
    ELSE [st EXCEPT !.err = ErrFeatureType]
  ELSE IF e.k = "geometry" THEN
    IF e.v.t = "Object"
    THEN [st EXCEPT !.hash_map = Insert(st.hash_map, "geometry", e.v)]
    ELSE [st EXCEPT !.err = ErrFeatureGeometry]
  ELSE IF e.k = "properties" THEN
    IF e.v.t = "Object"
    THEN [st EXCEPT !.hash_map = Flatten(st.hash_map, e.v.o, 1)]
    ELSE [st EXCEPT !.err = ErrFeatureGeometry]
  ELSE [st EXCEPT !.err = ErrForeignMember]

RECURSIVE FeatureVisitor_loop(_, _, _)
FeatureVisitor_loop(entries, i, st) ==
  Bind(st, LAMBDA s :
    IF i > Len(entries) \/ s.err # "" THEN s
    ELSE FeatureVisitor_loop(entries, i + 1, FeatureVisitor_entry(s, entries[i])))

\* The outcome of one FeatureVisitor::visit_map call: kind is "Ok" (a record),
\* "Err" (an error returned to the caller) or "Panic" (expect on a failed D
\* decode); handed holds the field map given to D's decode, if any; hook the
\* calls of deserialize_geometry made by that decode.
FeatureVisitor_finish(st, order) ==
  IF st.err # "" THEN [kind |-> "Err", err |-> st.err, handed |-> <<>>, hook |-> <<>>]
  ELSE IF st.has_feature_type THEN
    Bind(MyStruct_deserialize(st.hash_map, order), LAMBDA d :
      IF d.ok
      THEN [kind |-> "Ok", value |-> d.value, handed |-> <<st.hash_map>>, hook |-> d.hook]
      ELSE [kind |-> "Panic", err |-> d.err, handed |-> <<st.hash_map>>, hook |-> d.hook])
  ELSE [kind |-> "Err", err |-> ErrFeatureNoType, handed |-> <<>>, hook |-> <<>>]

FeatureVisitor_visit_map(entries, order) ==
  Bind(FeatureVisitor_loop(entries, 1, FeatureVisitor_new),
       LAMBDA st : FeatureVisitor_finish(st, order))

\* JsonValue::deserialize_map on a buffered feature value
Value_deserialize_map(feature_value, order) ==
  IF feature_value.t = "Object"
  THEN FeatureVisitor_visit_map(feature_value.o, order)
  ELSE [kind |-> "Err", err |-> ErrNotAMap, handed |-> <<>>, hook |-> <<>>]

\* The field map a feature value leads to (the HashMap whose iteration order
\* the D decode follows)
FieldMapOf(feature_value) ==
  IF feature_value.t = "Object"
  THEN FeatureVisitor_loop(feature_value.o, 1, FeatureVisitor_new).hash_map
  ELSE EmptyMap

(***************************************************************************)
(* Input documents                                                         *)
(***************************************************************************)
PointA == Obj(<<Entry("type", Str("Point")),
                Entry("coordinates", Arr(<<Num(125), Num(10)>>))>>)
PointB == Obj(<<Entry("type", Str("Point")),
                Entry("coordinates", Arr(<<Num(2), Num(4)>>))>>)
PolygonGeom == Obj(<<Entry("type", Str("Polygon")),
                     Entry("coordinates", Arr(<<Arr(<<Arr(<<Num(0), Num(0)>>)>>)>>))>>)
BadGeom == Obj(<<Entry("type", Str("Circle"))>>)

Props1 == Obj(<<Entry("name", Str("Dinagat Islands")), Entry("age", Num(123))>>)
Props2 == Obj(<<Entry("name", Str("Neverland")), Entry("age", Num(456))>>)
PropsNoAge == Obj(<<Entry("name", Str("Neverland"))>>)
PropsBadAge == Obj(<<Entry("name", Str("Neverland")), Entry("age", Str("old"))>>)
PropsGeometry == Obj(<<Entry("geometry", PointB), Entry("name", Str("Neverland")),
                       Entry("age", Num(456))>>)

TypeFeature == Entry("type", Str("Feature"))
Good1 == Obj(<<Entry("geometry", PointA), Entry("properties", Props1), TypeFeature>>)
Good2 == Obj(<<Entry("geometry", PointB), Entry("properties", Props2), TypeFeature>>)
MissingAge == Obj(<<Entry("geometry", PointA), Entry("properties", PropsNoAge), TypeFeature>>)
PolygonFeature == Obj(<<Entry("geometry", PolygonGeom), Entry("properties", Props1),
                        TypeFeature>>)
BboxFeature == Obj(<<Entry("bbox", Arr(<<>>)), Entry("geometry", PointA),
                     Entry("properties", Props1), TypeFeature>>)

\* Entries a feature object is built from
FeatureEntries ==
  {TypeFeature, Entry("type", Str("Point")),
   Entry("geometry", PointA), Entry("geometry", PolygonGeom),
   Entry("geometry", BadGeom), Entry("geometry", Null),
   Entry("properties", Props1), Entry("properties", PropsNoAge),
   Entry("properties", PropsBadAge), Entry("properties", PropsGeometry),
   Entry("properties", Null),
   Entry("bbox", Arr(<<>>))}

\* Feature objects: unique keys, in every order
FeatureObjects ==
  {Obj(o) : o \in {s \in SeqsUpTo(FeatureEntries, MaxFeatureEntries) :
                     \A i, j \in 1..Len(s) : s[i].k = s[j].k => i = j}}

FeaturePool == {Good1, Good2, MissingAge, PolygonFeature, BboxFeature}
SmallPool == {Good1, Num(5)}

TypeCollection == Entry("type", Str("FeatureCollection"))

TopEntries ==
  {TypeCollection, Entry("type", Str("Point")),
   Entry("bbox", Arr(<<>>)), Entry("features", Null)}
  \cup {Entry("features", Arr(a)) : a \in SeqsUpTo(SmallPool, MaxFeatures)}

\* Any top-level entries (repeated keys included) around small arrays
EnvelopeDocs == SeqsUpTo(TopEntries, MaxTopEntries)
\* A well-formed envelope around an array of pool features
CollectionDocs ==
  {<<TypeCollection, Entry("features", Arr(a))>> : a \in SeqsUpTo(FeaturePool, MaxFeatures)}
\* A well-formed envelope around one feature object
FeatureDocs ==
  {<<TypeCollection, Entry("features", Arr(<<f>>))>> : f \in FeatureObjects}

(***************************************************************************)
(* The program                                                             *)
(***************************************************************************)
Init ==
  /\ \/ doc \in EnvelopeDocs
     \/ doc \in CollectionDocs
     \/ doc \in FeatureDocs
  /\ pc = "start"
  /\ objects = <<>>
  /\ pos = 0
  /\ error = ""
  /\ yielded = <<>>
  /\ handed = <<>>
  /\ hookCalls = <<>>
  /\ runs = 0

\* Faulty variant: an envelope error is taken for an empty sequence
deserialize_ignores_error ==
  /\ pc = "start"
  /\ runs' = runs + 1
  /\ \E r \in {FeatureCollectionVisitor_visit_map(doc)} :
        /\ pc' = "iterating"
        /\ objects' = IF r.ok THEN r.value ELSE <<>>
        /\ error' = ""
  /\ UNCHANGED <<doc, pos, yielded, handed, hookCalls>>

\* FeatureReader::deserialize -> deserialize_collection_features_from_reader
deserialize ==
  /\ pc = "start"
  /\ runs' = runs + 1
  /\ \E r \in {FeatureCollectionVisitor_visit_map(doc)} :
        IF r.ok
        THEN pc' = "iterating" /\ objects' = r.value /\ error' = ""
        ELSE pc' = "envelope_error" /\ objects' = <<>> /\ error' = r.err
  /\ UNCHANGED <<doc, pos, yielded, handed, hookCalls>>

\* Iterator::next on the returned sequence: the closure on the next buffered value
iterator_next ==
  /\ pc = "iterating"
  /\ pos < Len(objects)
  /\ \E order \in Orders(DOMAIN FieldMapOf(objects[pos + 1])) :
       \E r \in {Value_deserialize_map(objects[pos + 1], order)} :
          /\ pos' = pos + 1
          /\ handed' = handed \o [i \in 1..Len(r.handed) |->
                                    [index |-> pos + 1, map |-> r.handed[i]]]
          /\ hookCalls' = hookCalls \o r.hook
          /\ IF r.kind = "Panic"
             THEN pc' = "panicked" /\ yielded' = yielded
             ELSE /\ pc' = pc
                  /\ yielded' = Append(yielded,
                       IF r.kind = "Ok"
                       THEN [kind |-> "Ok", value |-> r.value]
                       ELSE [kind |-> "Err", err |-> r.err])
  /\ UNCHANGED <<doc, objects, error, runs>>

\* Iterator::next once every buffered value was taken
iterator_end ==
  /\ pc = "iterating"
  /\ pos = Len(objects)
  /\ pc' = "exhausted"
  /\ UNCHANGED <<doc, objects, pos, error, yielded, handed, hookCalls, runs>>

Next == deserialize \/ iterator_next \/ iterator_end

Spec == Init /\ [][Next]_vars

(***************************************************************************)
(* Vocabulary of the properties                                            *)
(***************************************************************************)
Succeeded == pc \in {"iterating", "exhausted", "panicked"}

Indices(o, k) == {i \in 1..Len(o) : o[i].k = k}
Permute(d, p) == [i \in 1..Len(d) |-> d[p[i]]]

\* A top-level entry that passes its own check
TopEntryPasses(e) ==
  \/ e.k = "type" /\ e.v = Str("FeatureCollection")
  \/ e.k = "features" /\ e.v.t = "Array"

EnvelopeWellFormed(d) ==
  /\ \A i \in 1..Len(d) : TopEntryPasses(d[i])
  /\ Cardinality(Indices(d, "features")) = 1
  /\ Indices(d, "type") # {}

\* The error a feature-level entry raises by itself ("" when it passes)
FeatureEntryError(e) ==
  IF e.k = "type" THEN (IF e.v = Str("Feature") THEN "" ELSE ErrFeatureType)
  ELSE IF e.k \in {"geometry", "properties"}
       THEN (IF e.v.t = "Object" THEN "" ELSE ErrFeatureGeometry)
  ELSE ErrForeignMember

\* The first entry, in arrival order, that fails its own check
FirstBad(o) ==
  {j \in 1..Len(o) : /\ FeatureEntryError(o[j]) # ""
                     /\ \A i \in 1..(j - 1) : FeatureEntryError(o[i]) = ""}

SchemaPasses(v) ==
  /\ v.t = "Object"
  /\ \A i \in 1..Len(v.o) : FeatureEntryError(v.o[i]) = ""
  /\ Indices(v.o, "type") # {}

HandedFor(k) == {i \in 1..Len(handed) : handed[i].index = k}

(***************************************************************************)
(* C3: a failing envelope is an immediate error.  The envelope decoder has  *)
(* run exactly once as soon as deserialize returned and not before; when    *)
(* the top-level entries are not a well-formed envelope, deserialize ends   *)
(* in the envelope error, nothing is buffered, no feature is ever decoded,  *)
(* no field map is handed to D, and no element is produced.                 *)
(***************************************************************************)
C3_EnvelopeFailHard ==
  /\ pc = "start" => runs = 0 /\ pos = 0 /\ yielded = <<>> /\ handed = <<>>
  /\ pc # "start" => runs = 1
  /\ (pc # "start" /\ ~EnvelopeWellFormed(doc)) =>
       /\ pc = "envelope_error"
       /\ error # ""
       /\ objects = <<>>
       /\ pos = 0
       /\ yielded = <<>>
       /\ handed = <<>>
       /\ hookCalls = <<>>

\* An envelope error although the features array holds a well-formed feature
C3_Witness ==
  /\ pc = "envelope_error"
  /\ \E i \in 1..Len(doc) :
       /\ doc[i].k = "features"
       /\ doc[i].v.t = "Array"
       /\ \E j \in 1..Len(doc[i].v.a) : doc[i].v.a[j] = Good1

(***************************************************************************)
(* C4 (as stated): success only with the type confirmed and a features      *)
(* array seen, the output being that array; no type entry gives the         *)
(* no-type error, no features entry the no-features error, a foreign key    *)
(* a failure.                                                               *)
(***************************************************************************)
C4_SuccessPart ==
  Succeeded =>
    /\ \E i \in 1..Len(doc) : doc[i] = TypeCollection
    /\ \E i \in 1..Len(doc) :
         doc[i].k = "features" /\ doc[i].v.t = "Array" /\ objects = doc[i].v.a

C4_ForeignPart ==
  (pc # "start" /\ \E i \in 1..Len(doc) : doc[i].k \notin {"type", "features"})
    => pc = "envelope_error"

C4_Original ==
  /\ C4_SuccessPart
  /\ C4_ForeignPart
  /\ (pc # "start" /\ Indices(doc, "type") = {})
       => pc = "envelope_error" /\ error = ErrNoType
  /\ (pc # "start" /\ Indices(doc, "features") = {})
       => pc = "envelope_error" /\ error = ErrNoFeatures

(***************************************************************************)
(* C4 (amended): success only with the type confirmed and a features array  *)
(* seen, the output being that array in array order; a foreign key is a     *)
(* failure; when every entry passes its own check, no features entry gives  *)
(* the no-features error (also when the type entry is missing as well), and *)
(* one features entry without a type entry gives the no-type error.         *)
(***************************************************************************)
C4_EnvelopeResult ==
  /\ C4_SuccessPart
  /\ C4_ForeignPart
  /\ (pc # "start" /\ \A i \in 1..Len(doc) : TopEntryPasses(doc[i])) =>
       /\ Indices(doc, "features") = {}
            => pc = "envelope_error" /\ error = ErrNoFeatures
       /\ (Cardinality(Indices(doc, "features")) = 1 /\ Indices(doc, "type") = {})
            => pc = "envelope_error" /\ error = ErrNoType

\* Neither a type nor a features entry: the no-features error is the one reported
C4_Witness ==
  /\ pc = "envelope_error"
  /\ Indices(doc, "type") = {}
  /\ Indices(doc, "features") = {}
  /\ error = ErrNoFeatures

(***************************************************************************)
(* C5 (as stated): every arrival order of the top-level entries gives the   *)
(* same result, the same success with the same features or the same         *)
(* failure.                                                                 *)
(***************************************************************************)
C5_Original ==
  pc # "start" =>
    \A p \in Orders(1..Len(doc)) :
      \E r \in {FeatureCollectionVisitor_visit_map(Permute(doc, p))} :
        IF pc = "envelope_error"
        THEN ~r.ok /\ r.err = error
        ELSE r.ok /\ r.value = objects

(***************************************************************************)
(* C5 (amended): every arrival order of the top-level entries gives the     *)
(* same verdict (success or failure) and, on success, the same features in  *)
(* array order; which error a failure reports may depend on the order.      *)
(***************************************************************************)
C5_OrderIndependent ==
  pc # "start" =>
    \A p \in Orders(1..Len(doc)) :
      \E r \in {FeatureCollectionVisitor_visit_map(Permute(doc, p))} :
        IF pc = "envelope_error"
        THEN ~r.ok
        ELSE r.ok /\ r.value = objects

\* Another arrival order of the same entries fails with another error
C5_Witness ==
  /\ pc = "envelope_error"
  /\ \E p \in Orders(1..Len(doc)) :
       \E r \in {FeatureCollectionVisitor_visit_map(Permute(doc, p))} :
         ~r.ok /\ r.err # error

(***************************************************************************)
(* C6 (as stated): "features" delivered more than once always fails with    *)
(* the duplicate-features error.                                            *)
(***************************************************************************)
C6_Original ==
  (pc # "start" /\ Cardinality(Indices(doc, "features")) >= 2) =>
    pc = "envelope_error" /\ error = ErrDuplicateFeatures

(***************************************************************************)
(* C6 (amended): "features" delivered more than once always fails and no    *)
(* array is returned; the error is the duplicate-features error exactly     *)
(* when every entry up to and including the second "features" entry passes  *)
(* its own check, otherwise it is the error of an earlier failing entry.    *)
(***************************************************************************)
SecondFeatures(d) ==
  CHOOSE j \in Indices(d, "features") :
    Cardinality({i \in Indices(d, "features") : i < j}) = 1

C6_DuplicateFeatures ==
  (pc # "start" /\ Cardinality(Indices(doc, "features")) >= 2) =>
    /\ pc = "envelope_error"
    /\ objects = <<>>
    /\ error = ErrDuplicateFeatures
         <=> \A i \in 1..SecondFeatures(doc) : TopEntryPasses(doc[i])

\* Two different arrays, rejected with the duplicate-features error
C6_Witness ==
  /\ pc = "envelope_error"
  /\ error = ErrDuplicateFeatures
  /\ \E i, j \in Indices(doc, "features") : doc[i].v # doc[j].v

(***************************************************************************)
(* C1: a feature that passes the schema checks but whose field map does not *)
(* decode into D gives, when pulled, an error outcome for that element:     *)
(* the pull returns and the element delivered is an error.                  *)
(***************************************************************************)
TargetDecodeFails(v) ==
  \A order \in Orders(DOMAIN FieldMapOf(v)) :
    ~MyStruct_deserialize(FieldMapOf(v), order).ok

C1_TargetDecodeFailureReturned ==
  \A k \in 1..pos :
    (SchemaPasses(objects[k]) /\ TargetDecodeFails(objects[k])) =>
      /\ pc # "panicked"
      /\ k <= Len(yielded)
      /\ yielded[k].kind = "Err"

(***************************************************************************)
(* C2: after a successful envelope with n buffered features, pulling to the *)
(* end yields exactly n outcomes, the k-th being the success or the error   *)
(* of decoding the k-th feature; no feature's failure ends the sequence     *)
(* early.                                                                   *)
(***************************************************************************)
C2_FailSoftPerItem ==
  /\ pc # "panicked"
  /\ pc = "exhausted" => Len(yielded) = Len(objects)
  /\ \A k \in 1..Len(yielded) :
       \E order \in Orders(DOMAIN FieldMapOf(objects[k])) :
         \E r \in {Value_deserialize_map(objects[k], order)} :
           /\ r.kind = yielded[k].kind
           /\ r.kind = "Ok" => r.value = yielded[k].value
           /\ r.kind = "Err" => r.err = yielded[k].err

(***************************************************************************)
(* C7 (as stated): a foreign feature-level key yields the foreign-member    *)
(* error, a type other than "Feature" the type-mismatch error, a non-object *)
(* geometry or properties an error, and a feature without a confirmed type  *)
(* fails without its field map being handed to D; each is an error outcome  *)
(* of that feature.                                                         *)
(***************************************************************************)
ErrOutcome(k, e) == k <= Len(yielded) /\ yielded[k] = [kind |-> "Err", err |-> e]
IsErrOutcome(k) == k <= Len(yielded) /\ yielded[k].kind = "Err"

C7_Original ==
  \A k \in 1..pos :
    objects[k].t = "Object" =>
      \E o \in {objects[k].o} :
        /\ (\E i \in 1..Len(o) : o[i].k \notin {"type", "geometry", "properties"})
             => ErrOutcome(k, ErrForeignMember)
        /\ (\E i \in Indices(o, "type") : o[i].v # Str("Feature"))
             => ErrOutcome(k, ErrFeatureType)
        /\ (\E i \in Indices(o, "geometry") \cup Indices(o, "properties") :
              o[i].v.t # "Object")
             => IsErrOutcome(k)
        /\ (~ \E i \in Indices(o, "type") : o[i].v = Str("Feature"))
             => IsErrOutcome(k) /\ HandedFor(k) = {}

(***************************************************************************)
(* C7 (amended): the entries of a feature are checked in arrival order and  *)
(* the first one that fails decides the error: a foreign key the            *)
(* foreign-member error, a type other than "Feature" the type-mismatch      *)
(* error, a non-object geometry or properties the unexpected-geometry       *)
(* error; when every entry passes and none confirmed the type, the feature  *)
(* fails with the missing-type error.  In each case the field map is not    *)
(* handed to D, the failure is the outcome of that feature only, and the    *)
(* sequence goes on.                                                        *)
(***************************************************************************)
C7_FeatureSchemaErrors ==
  \A k \in 1..pos :
    objects[k].t = "Object" =>
      \E o \in {objects[k].o} :
        /\ \A j \in FirstBad(o) :
             /\ ErrOutcome(k, FeatureEntryError(o[j]))
             /\ HandedFor(k) = {}
             /\ pos = k => pc # "panicked"
        /\ (FirstBad(o) = {} /\ Indices(o, "type") = {}) =>
             /\ ErrOutcome(k, ErrFeatureNoType)
             /\ HandedFor(k) = {}
             /\ pos = k => pc # "panicked"

\* A feature with a foreign key delivered before a wrong type: the outcome is
\* the foreign-member error alone, and the next pull is still possible
C7_Witness ==
  \E k \in 1..pos :
    /\ objects[k].t = "Object"
    /\ \E i \in Indices(objects[k].o, "bbox") :
         \E j \in Indices(objects[k].o, "type") :
           i < j /\ objects[k].o[j].v # Str("Feature")
    /\ ErrOutcome(k, ErrForeignMember)
    /\ pc = "iterating"

(***************************************************************************)
(* C8: deserialize_geometry returns an error without converting when the    *)
(* value is no canonical Geometry; returns the converted G when the         *)
(* conversion succeeds; and otherwise returns the error "unable to convert  *)
(* from geojson Geometry: " followed by the conversion failure's text.      *)
(***************************************************************************)
C8_GeometryAdapter ==
  \A i \in 1..Len(hookCalls) :
    \E c \in {hookCalls[i]} :
      \E g \in {Geometry_deserialize(c.value)} :
        IF ~g.ok
        THEN ~c.result.ok /\ ~c.result.converted /\ c.result.err = g.err
        ELSE IF g.value.type = "Point"
        THEN /\ c.result.ok
             /\ c.result.value = [x |-> g.value.coordinates[1].n,
                                  y |-> g.value.coordinates[2].n]
        ELSE /\ ~c.result.ok
             /\ c.result.err = "unable to convert from geojson Geometry: not a Point"

\* The hook was called on a polygon and returned the conversion error
C8_Witness ==
  \E i \in 1..Len(hookCalls) :
    /\ hookCalls[i].value = PolygonGeom
    /\ ~hookCalls[i].result.ok
    /\ hookCalls[i].result.err = ErrConvertPrefix \o ErrNotAPoint

(***************************************************************************)
(* C9 (as stated): when the properties hold a key "geometry", the field map *)
(* handed to D holds the properties' value under "geometry", whatever the   *)
(* arrival order of the geometry and properties entries.                    *)
(***************************************************************************)
PropertiesWithGeometry(o) ==
  /\ Indices(o, "properties") # {}
  /\ Lookup(o, "properties").t = "Object"
  /\ "geometry" \in Keys(Lookup(o, "properties").o)

PropertyEntries(o) ==
  IF Indices(o, "properties") # {} /\ Lookup(o, "properties").t = "Object"
  THEN Lookup(o, "properties").o
  ELSE <<>>

C10_FieldMapInvariant ==
  /\ \A i \in 1..Len(handed) :
       \E o \in {objects[handed[i].index].o} :
         \E m \in {handed[i].map} :
           /\ "geometry" \in DOMAIN m
           /\ m["geometry"].t = "Object"
           /\ DOMAIN m = {"geometry"} \cup Keys(PropertyEntries(o))
           /\ \A j \in 1..Len(PropertyEntries(o)) :
                PropertyEntries(o)[j].k # "geometry"
                  => m[PropertyEntries(o)[j].k] = PropertyEntries(o)[j].v
  /\ \A k \in 1..pos :
       Cardinality(HandedFor(k)) = IF SchemaPasses(objects[k]) THEN 1 ELSE 0

====
